---- MODULE Spec2Model ----
(***************************************************************************)
(* Verification model of grayskull/strategy/py_base.py:                    *)
(*   - the interpreter-version resolver (generic_py_ver_to and its two     *)
(*     entry points, get_py_multiple_selectors),                           *)
(*   - the dependency-line filter (clean_deps_for_conda_forge),            *)
(*   - the sdist metadata merge (merge_sdist_metadata),                    *)
(*   - the extraction context (injection_distutils, __run_setup_py).       *)
(* Each part has its own specification over the shared variables.          *)
(***************************************************************************)
EXTENDS Integers, Sequences, FiniteSets, TLC

VARIABLES
    config,      \* resolver: the Configuration (is_strict_cf, supported_py, py_cf_supported)
    req_python,  \* resolver: the (op, major, minor) triples found in requires_python
    call,        \* resolver: the entry point that was called, with its is_selector
    result,      \* resolver: what the call returned (None, a string, or a raised TypeError)
    list_deps,   \* filter: the dependency lines given to clean_deps_for_conda_forge
    py_ver_min,  \* filter: the floor of the supported versions
    result_deps, \* filter: the lines it returned
    clean_done,  \* filter: whether clean_deps_for_conda_forge has run
    setup_py,    \* merge: the record captured from the build script
    setup_cfg,   \* merge: the record read from the config file
    merged,      \* merge: what merge_sdist_metadata returned
    merge_done,  \* merge: whether merge_sdist_metadata has run
    tree,        \* extraction: the build descriptors the source tree holds
    script,      \* extraction: the keyword arguments the descriptor gives setup()
    vendored,    \* extraction: the third-party modules the descriptor imports
    cfg_file,    \* extraction: the setup.cfg of the tree, as read_configuration reads it
    pc,          \* extraction: where injection_distutils is
    stack,       \* extraction: the frames of __run_setup_py, innermost last
    data_dist,   \* extraction: the record being captured
    core_setup,  \* extraction: what distutils.core.setup is bound to
    cwd,         \* extraction: the process working directory
    sys_path,    \* extraction: sys.path
    pip_dirs,    \* extraction: the temporary pip directories that exist
    tmp_count,   \* extraction: how many temporary directories mkdtemp has made
    deps_installed, \* extraction: the deps_installed list of the current top-level call
    installs,    \* extraction: the pip installs attempted so far, in order
    executions,  \* extraction: descriptor executions of the current top-level call
    caller_exc   \* extraction: the exception the with-statement raised to its caller

resolver_vars == <<config, req_python, call, result>>
clean_vars == <<list_deps, py_ver_min, result_deps, clean_done>>
merge_vars == <<setup_py, setup_cfg, merged, merge_done>>
tree_vars == <<tree, script, vendored, cfg_file>>
extract_vars == <<tree_vars, pc, stack, data_dist, core_setup, cwd, sys_path, pip_dirs,
                  tmp_count, deps_installed, installs, executions, caller_exc>>
vars == <<resolver_vars, clean_vars, merge_vars, extract_vars>>

(***************************************************************************)
(* Bounds of the model.                                                    *)
(***************************************************************************)
\* number of Python 3 entries of the largest support matrix (3.6, 3.7, ...)
MaxPy3 == 4
\* number of comparator clauses of the longest requires_python expression
MaxClauses == 2

(***************************************************************************)
(* Python dicts and lists.  A dict is a function from the keys it holds.   *)
(***************************************************************************)
EmptyDict == [k \in {} |-> <<>>]

\* d.get(key, default)
DictGet(d, key, default) == IF key \in DOMAIN d THEN d[key] ELSE default

\* d.update(other)
DictUpdate(d, other) ==
    [k \in DOMAIN d \cup DOMAIN other |-> IF k \in DOMAIN other THEN other[k] ELSE d[k]]

\* del d[key]
DictDel(d, key) == [k \in DOMAIN d \ {key} |-> d[k]]

\* set(list)
ListSet(list) == {list[i] : i \in DOMAIN list}

\* list(set): every element once, in an order the hash seed decides
ListsOfSet(S) == {q \in [1..Cardinality(S) -> S] : ListSet(q) = S}

\* list.remove(x): drops the first occurrence
ListRemove(list, x) ==
    LET first == CHOOSE i \in DOMAIN list :
                    list[i] = x /\ \A j \in 1..(i - 1) : list[j] # x
    IN  SubSeq(list, 1, first - 1) \o SubSeq(list, first + 1, Len(list))

(***************************************************************************)
(* PyVer and the Configuration capability.                                 *)
(***************************************************************************)
\* PyVer(major, minor): a named tuple, compared lexicographically
PyVer(major, minor) == <<major, minor>>

PyVerLt(a, b) == a[1] < b[1] \/ (a[1] = b[1] /\ a[2] < b[2])

\* eval(f"a {op} b") on two PyVer
PyVerCompare(op, a, b) ==
    CASE op = "<"  -> PyVerLt(a, b)
      [] op = "<=" -> ~PyVerLt(b, a)
      [] op = ">"  -> PyVerLt(b, a)
      [] op = ">=" -> ~PyVerLt(a, b)
      [] op = "==" -> a = b
      [] op = "!=" -> a # b

\* all(...) and any(...) over a list of booleans
PyAll(bs) == \A i \in DOMAIN bs : bs[i]
PyAny(bs) == \E i \in DOMAIN bs : bs[i]

\* py list slices, on 1-based positions: xs[pos:] and xs[:pos]
SliceFrom(xs, pos) == SubSeq(xs, pos, Len(xs))
SliceUpTo(xs, pos) == SubSeq(xs, 1, pos - 1)

\* Configuration.get_py_version_available: for every supported version, in
\* matrix order, whether it satisfies every clause of req_python (a missing
\* minor counts as 0).
get_py_version_available(cfg, req) ==
    [i \in DOMAIN cfg.supported_py |->
        \A k \in DOMAIN req :
            PyVerCompare(req[k].op, cfg.supported_py[i],
                         PyVer(req[k].major,
                               IF req[k].has_minor THEN req[k].minor ELSE 0))]

RECURSIVE FirstAtLeast(_, _, _)
FirstAtLeast(list_py_ver, floor, i) ==
    IF i > Len(list_py_ver) THEN floor
    ELSE IF ~PyVerLt(list_py_ver[i], floor) THEN list_py_ver[i]
    ELSE FirstAtLeast(list_py_ver, floor, i + 1)

\* Configuration.get_oldest_py3_version: the first version of the (ascending)
\* list that is at least the floor: py_cf_supported[0] when strict, else 3.0.
get_oldest_py3_version(cfg, list_py_ver) ==
    FirstAtLeast(list_py_ver,
                 IF cfg.is_strict_cf THEN cfg.py_cf_supported[1] ELSE PyVer(3, 0),
                 1)

(***************************************************************************)
(* The resolver: generic_py_ver_to and get_py_multiple_selectors.          *)
(* A returned value is None, a string, or a raised TypeError.  A range     *)
(* string is kept together with the clauses it was joined from.            *)
(***************************************************************************)
\* f"{py_ver.major}{py_ver.minor}" and f"{py_ver.major}.{py_ver.minor}"
PyTag(v) == ToString(v[1]) \o ToString(v[2])
PyDotted(v) == ToString(v[1]) \o "." \o ToString(v[2])

\* one element of a list of selectors / range clauses: a str, or (for a PyVer
\* spliced into the list) an int
StrItem(text) == [isstr |-> TRUE, text |-> text, op |-> "", ver |-> <<>>]
IntItem(n) == [isstr |-> FALSE, text |-> ToString(n), op |-> "", ver |-> <<>>]
\* f"{op}{major}.{minor}"
RangeClause(op, v) == [isstr |-> TRUE, text |-> op \o PyDotted(v), op |-> op, ver |-> v]

RECURSIVE JoinText(_, _)
JoinText(items, sep) ==
    IF items = <<>> THEN ""
    ELSE IF Len(items) = 1 THEN items[1].text
    ELSE items[1].text \o sep \o JoinText(Tail(items), sep)

NoneResult == [kind |-> "None", text |-> "", clauses |-> <<>>]
StrResult(text) == [kind |-> "str", text |-> text, clauses |-> <<>>]
RaisedTypeError == [kind |-> "TypeError", text |-> "", clauses |-> <<>>]
\* ",".join(clauses), a TypeError when an element is not a str
JoinRange(items) ==
    IF \E i \in DOMAIN items : ~items[i].isstr THEN RaisedTypeError
    ELSE [kind |-> "str", text |-> JoinText(items, ","), clauses |-> items]
\* "# [{}]".format(" or ".join(items))
JoinSelector(items) ==
    IF \E i \in DOMAIN items : ~items[i].isstr THEN RaisedTypeError
    ELSE StrResult("# [" \o JoinText(items, " or ") \o "]")

LEGACY == PyVer(2, 7)

RECURSIVE DisabledSelectors(_, _, _, _, _)
DisabledSelectors(keys, all_py, cfg, is_selector, i) ==
    IF i > Len(keys) THEN <<>>
    ELSE (IF (~cfg.is_strict_cf /\ keys[i] = LEGACY) \/ all_py[i]
          THEN <<>>
          ELSE IF is_selector
               THEN <<StrItem("py==" \o PyTag(keys[i]))>>
               ELSE <<RangeClause("!=", keys[i])>>)
         \o DisabledSelectors(keys, all_py, cfg, is_selector, i + 1)

\* get_py_multiple_selectors(selectors, config, is_selector); selectors is the
\* dict keys -> all_py.  In range mode the oldest Python 3 PyVer itself is
\* spliced into the list (its two ints) when 2.7 is disabled and not strict.
get_py_multiple_selectors(keys, all_py, cfg, is_selector) ==
    LET oldest == get_oldest_py3_version(cfg, keys)
        head == IF ~cfg.is_strict_cf /\ ~all_py[1]
                THEN (IF is_selector
                      THEN <<StrItem("py2k")>>
                      ELSE <<IntItem(oldest[1]), IntItem(oldest[2])>>)
                ELSE <<>>
    IN  head \o DisabledSelectors(keys, all_py, cfg, is_selector, 1)

\* the body of the for loop of generic_py_ver_to at position pos, when one of
\* its two branches returns
LoopReturns(keys, all_py, pos) ==
    /\ keys[pos] # LEGACY
    /\ \/ PyAll(SliceFrom(all_py, pos)) /\ ~PyAny(SliceUpTo(all_py, pos))
       \/ ~PyAny(SliceFrom(all_py, pos))

\* LoopResult with the ascending cutover emitted as a strict bound
LoopResultStrictBound(keys, all_py, cfg, is_selector, small_py3_version, pos) ==
    IF PyAll(SliceFrom(all_py, pos)) /\ ~PyAny(SliceUpTo(all_py, pos))
    THEN IF is_selector
         THEN StrResult("# [py<=" \o PyTag(keys[pos]) \o "]")
         ELSE JoinRange(<<RangeClause(">", keys[pos])>>)
    ELSE IF is_selector
         THEN StrResult("# [py>=" \o PyTag(keys[pos])
                        \o (IF ~cfg.is_strict_cf /\ ~all_py[1] THEN " or py2k" ELSE "")
                        \o "]")
         ELSE JoinRange((IF ~all_py[1]
                         THEN <<RangeClause(">=", small_py3_version)>>
                         ELSE <<>>)
                        \o <<RangeClause("<", keys[pos])>>)

LoopResult(keys, all_py, cfg, is_selector, small_py3_version, pos) ==
    IF PyAll(SliceFrom(all_py, pos)) /\ ~PyAny(SliceUpTo(all_py, pos))
    THEN IF is_selector
         THEN StrResult("# [py<" \o PyTag(keys[pos]) \o "]")
         ELSE JoinRange(<<RangeClause(">=", keys[pos])>>)
    ELSE IF is_selector
         THEN StrResult("# [py>=" \o PyTag(keys[pos])
                        \o (IF ~cfg.is_strict_cf /\ ~all_py[1] THEN " or py2k" ELSE "")
                        \o "]")
         ELSE JoinRange((IF ~all_py[1]
                         THEN <<RangeClause(">=", small_py3_version)>>
                         ELSE <<>>)
                        \o <<RangeClause("<", keys[pos])>>)

\* LegacyExemptResult with no range constraint at all
LegacyExemptResultNoRange(cfg, is_selector, small_py3_version) ==
    IF is_selector
    THEN (IF cfg.is_strict_cf THEN NoneResult ELSE StrResult("# [py2k]"))
    ELSE NoneResult

\* all but the legacy entry enabled (not strict): the branch of lines 155-159
LegacyExemptResult(cfg, is_selector, small_py3_version) ==
    IF is_selector
    THEN (IF cfg.is_strict_cf THEN NoneResult ELSE StrResult("# [py2k]"))
    ELSE JoinRange(<<RangeClause(">=", small_py3_version)>>)

\* only the legacy entry enabled: the branch of lines 160-161
LegacyOnlyResult(is_selector) ==
    IF is_selector
    THEN StrResult("# [py3k]")
    ELSE JoinRange(<<RangeClause("<", PyVer(3, 0))>>)

\* the enumeration of lines 184-193
FallbackResult(keys, all_py, cfg, is_selector) ==
    LET all_selector == get_py_multiple_selectors(keys, all_py, cfg, is_selector)
    IN  IF all_selector # <<>>
        THEN (IF is_selector THEN JoinSelector(all_selector)
              ELSE JoinRange(all_selector))
        ELSE NoneResult

\* generic_py_ver_to(metadata, config, is_selector), metadata["requires_python"]
\* given by the triples the regular expression finds in it
generic_py_ver_to(req, cfg, is_selector) ==
    IF req = <<>> THEN NoneResult
    ELSE
    LET keys == cfg.supported_py
        all_py == get_py_version_available(cfg, req)
        small_py3_version == get_oldest_py3_version(cfg, keys)
        hits == {pos \in DOMAIN keys : LoopReturns(keys, all_py, pos)}
    IN  IF PyAll(all_py) THEN NoneResult
        ELSE IF PyAll(IF cfg.is_strict_cf THEN all_py ELSE Tail(all_py))
        THEN LegacyExemptResult(cfg, is_selector, small_py3_version)
        ELSE IF keys[1] = LEGACY /\ all_py[1] /\ ~PyAny(Tail(all_py))
        THEN LegacyOnlyResult(is_selector)
        ELSE IF hits # {}
        THEN LoopResult(keys, all_py, cfg, is_selector, small_py3_version,
                        CHOOSE pos \in hits : \A q \in hits : pos <= q)
        ELSE FallbackResult(keys, all_py, cfg, is_selector)

py_version_to_selector(req, cfg) == generic_py_ver_to(req, cfg, TRUE)

\* py_version_to_limit_python with the floor applied whatever the strictness
py_version_to_limit_python_always_floor(req, cfg) ==
    LET res == generic_py_ver_to(req, cfg, FALSE)
    IN  IF res.kind = "None"
        THEN JoinRange(<<RangeClause(">=", cfg.py_cf_supported[1])>>)
        ELSE res

\* the strict configuration falls back to the floor of py_cf_supported
py_version_to_limit_python(req, cfg) ==
    LET res == generic_py_ver_to(req, cfg, FALSE)
    IN  IF res.kind = "None" /\ cfg.is_strict_cf
        THEN JoinRange(<<RangeClause(">=", cfg.py_cf_supported[1])>>)
        ELSE res

(***************************************************************************)
(* Resolver inputs.                                                        *)
(***************************************************************************)
\* the Python 3 part of a support matrix with n entries: 3.6, 3.7, ...
Py3Matrix(n) == [i \in 1..n |-> PyVer(3, 5 + i)]

\* strict: the conda-forge matrix, without 2.7; otherwise 2.7 comes first
Configurations ==
    {[is_strict_cf |-> s,
      py_cf_supported |-> Py3Matrix(n),
      supported_py |-> IF s THEN Py3Matrix(n) ELSE <<LEGACY>> \o Py3Matrix(n)]
        : s \in BOOLEAN, n \in 1..MaxPy3}

Ops == <<"<", "<=", ">", ">=", "==", "!=">>

\* the clauses a requires_python may hold: every comparator against "3",
\* against every 3.x of the largest matrix, and against 2.7
ClauseList ==
    [k \in 1..(Len(Ops) * (MaxPy3 + 2)) |->
        LET o == ((k - 1) % Len(Ops)) + 1
            v == (k - 1) \div Len(Ops)
        IN  IF v > MaxPy3
            THEN [op |-> Ops[o], major |-> 2, has_minor |-> TRUE, minor |-> 7]
            ELSE [op |-> Ops[o], major |-> 3, has_minor |-> v > 0, minor |-> 5 + v]]

\* requires_python expressions of at most MaxClauses clauses; the clauses are
\* conjoined, so one order of each combination is enough
Constraints ==
    UNION {{[i \in 1..n |-> ClauseList[ix[i]]] :
                ix \in {f \in [1..n -> DOMAIN ClauseList] :
                            \A i \in 1..n, j \in 1..n : i < j => f[i] <= f[j]}}
            : n \in 0..MaxClauses}

NoCall == [fn |-> "", is_selector |-> FALSE]

\* the parts of the state a specification does not use
IdleResolver ==
    /\ config = [is_strict_cf |-> FALSE, py_cf_supported |-> <<>>, supported_py |-> <<>>]
    /\ req_python = <<>>
    /\ call = NoCall
    /\ result = NoneResult

IdleClean ==
    /\ list_deps = <<>>
    /\ py_ver_min = PyVer(3, 6)
    /\ result_deps = <<>>
    /\ clean_done = FALSE

IdleMerge ==
    /\ setup_py = EmptyDict
    /\ setup_cfg = EmptyDict
    /\ merged = EmptyDict
    /\ merge_done = FALSE

IdleExtract ==
    /\ tree = {}
    /\ script = EmptyDict
    /\ vendored = <<>>
    /\ cfg_file = [readable |-> TRUE, record |-> EmptyDict]
    /\ pc = "idle"
    /\ stack = <<>>
    /\ data_dist = EmptyDict
    /\ core_setup = "setup_core_original"
    /\ cwd = "old_dir"
    /\ sys_path = <<>>
    /\ pip_dirs = {}
    /\ tmp_count = 0
    /\ deps_installed = <<>>
    /\ installs = <<>>
    /\ executions = 0
    /\ caller_exc = "none"

InitResolver ==
    /\ config \in Configurations
    /\ req_python \in Constraints
    /\ call = NoCall
    /\ result = NoneResult
    /\ IdleClean
    /\ IdleMerge
    /\ IdleExtract

CallGeneric ==
    /\ call = NoCall
    /\ \E is_selector \in BOOLEAN :
        /\ call' = [fn |-> "generic_py_ver_to", is_selector |-> is_selector]
        /\ result' = generic_py_ver_to(req_python, config, is_selector)
    /\ UNCHANGED <<config, req_python, clean_vars, merge_vars, extract_vars>>

CallSelector ==
    /\ call = NoCall
    /\ call' = [fn |-> "py_version_to_selector", is_selector |-> TRUE]
    /\ result' = py_version_to_selector(req_python, config)
    /\ UNCHANGED <<config, req_python, clean_vars, merge_vars, extract_vars>>

CallLimitPython ==
    /\ call = NoCall
    /\ call' = [fn |-> "py_version_to_limit_python", is_selector |-> FALSE]
    /\ result' = py_version_to_limit_python(req_python, config)
    /\ UNCHANGED <<config, req_python, clean_vars, merge_vars, extract_vars>>

NextResolver == CallGeneric \/ CallSelector \/ CallLimitPython

SpecResolver == InitResolver /\ [][NextResolver]_vars

(***************************************************************************)
(* The dependency-line filter: clean_deps_for_conda_forge.                 *)
(* A dependency line is its requirement text and, when it ends with a      *)
(* "# [py...]" comment, the comparator and the characters that follow it   *)
(* inside the brackets.                                                    *)
(***************************************************************************)
DigitChars == <<"0", "1", "2", "3", "4", "5", "6", "7", "8", "9">>

IsDigit(ch) == \E d \in DOMAIN DigitChars : DigitChars[d] = ch

\* int() of one digit character
DigitValue(ch) == (CHOOSE d \in DOMAIN DigitChars : DigitChars[d] = ch) - 1

\* int() of a string of digit characters
RECURSIVE IntOfDigits(_)
IntOfDigits(chars) ==
    IF chars = <<>> THEN 0
    ELSE IntOfDigits(SubSeq(chars, 1, Len(chars) - 1)) * 10
         + DigitValue(chars[Len(chars)])

\* str.replace("k", "0")
ReplaceK(chars) == [i \in DOMAIN chars |-> IF chars[i] = "k" THEN "0" ELSE chars[i]]

\* re_delimiter.search(dependency) is not None: the comment is there and
\* what follows the comparator is (\d+), one or more digits
re_delimiter_matches(dependency) ==
    /\ dependency.has_selector
    /\ dependency.body # <<>>
    /\ \A i \in DOMAIN dependency.body : IsDigit(dependency.body[i])

\* the loop body of clean_deps_for_conda_forge: whether the line is appended
KeepsDependency(dependency, floor) ==
    IF ~re_delimiter_matches(dependency) THEN TRUE
    ELSE LET op == IF dependency.op = "" THEN "==" ELSE dependency.op
             major == IntOfDigits(<<dependency.body[1]>>)
             rest == ReplaceK(Tail(dependency.body))
             minor == IF rest = <<>> THEN 0 ELSE IntOfDigits(rest)
             current_py == PyVer(major, minor)
         IN  PyVerCompare(op, floor, current_py)

clean_deps_for_conda_forge(deps, floor) ==
    SelectSeq(deps, LAMBDA dependency : KeepsDependency(dependency, floor))

\* number of lines of the longest dependency list
MaxDeps == 2

DependencyLine(text, has_selector, op, body) ==
    [text |-> text, has_selector |-> has_selector, op |-> op, body |-> body]

\* what may follow "py" and the comparator inside the brackets
SelectorBodies ==
    {<<"2", "7">>, <<"2", "k">>, <<"3">>, <<"3", "6">>, <<"3", "7">>, <<"3", "1", "0">>}

SelectorOps == {"", "<", "<=", ">", ">=", "==", "!="}

DependencyLines ==
    {DependencyLine(t, FALSE, "", <<>>) : t \in {"pywin32", "six"}}
    \cup {DependencyLine(t, TRUE, o, b) :
            t \in {"pywin32", "six"}, o \in SelectorOps, b \in SelectorBodies}

DependencyLists ==
    UNION {[1..n -> DependencyLines] : n \in 0..MaxDeps}

InitClean ==
    /\ list_deps \in DependencyLists
    /\ py_ver_min \in {PyVer(3, 6), PyVer(3, 8)}
    /\ result_deps = <<>>
    /\ clean_done = FALSE
    /\ IdleResolver
    /\ IdleMerge
    /\ IdleExtract

CleanDeps ==
    /\ ~clean_done
    /\ result_deps' = clean_deps_for_conda_forge(list_deps, py_ver_min)
    /\ clean_done' = TRUE
    /\ UNCHANGED <<list_deps, py_ver_min, resolver_vars, merge_vars, extract_vars>>

NextClean == CleanDeps

SpecClean == InitClean /\ [][NextClean]_vars

(***************************************************************************)
(* merge_sdist_metadata.  An element of a list-valued field is a string:   *)
(* a package (or compiler) name and, for a requirement, its specifier.     *)
(***************************************************************************)
Requirement(name, specifier) == [name |-> name, specifier |-> specifier]

SETUPTOOLS_SCM_DASH == Requirement("setuptools-scm", "")
SETUPTOOLS_SCM == Requirement("setuptools_scm", "")

\* the inner get_full_list(sec_key): the lists it may return
get_full_list(py, cfg, res, sec_key) ==
    IF sec_key \notin DOMAIN py
    THEN {DictGet(cfg, sec_key, <<>>)}
    ELSE ListsOfSet(ListSet(DictGet(cfg, sec_key, <<>>))
                    \cup ListSet(DictGet(res, sec_key, <<>>)))

MergedListKeys == {"install_requires", "extras_require", "setup_requires", "compilers"}

\* merge_sdist_metadata(setup_py, setup_cfg): the records it may return
merge_sdist_metadata(py, cfg) ==
    LET res == DictUpdate(cfg, py)
        keys == MergedListKeys \cap DOMAIN res
        full(k) == IF k \in keys THEN get_full_list(py, cfg, res, k) ELSE {<<>>}
        without_scm(l) == IF SETUPTOOLS_SCM_DASH \in ListSet(l)
                          THEN ListRemove(l, SETUPTOOLS_SCM_DASH) ELSE l
    IN  {[k \in DOMAIN res |->
            IF k \notin keys THEN res[k]
            ELSE IF k = "install_requires" THEN install
            ELSE IF k = "extras_require" THEN extras
            ELSE IF k = "setup_requires" THEN without_scm(setup)
            ELSE compilers] :
            install \in full("install_requires"), extras \in full("extras_require"),
            setup \in full("setup_requires"), compilers \in full("compilers")}

\* number of entries of the longest requirement list of a source
MaxList == 2

ListsOver(S) == UNION {[1..n -> S] : n \in 0..MaxList}

\* a record holding each key or not
Records(install, setup, extras) ==
    {[k \in present |->
        IF k = "install_requires" THEN i
        ELSE IF k = "setup_requires" THEN u ELSE e] :
        present \in SUBSET {"install_requires", "setup_requires", "extras_require"},
        i \in install, u \in setup, e \in extras}

SourceRecords ==
    Records(ListsOver({Requirement("requests", ""), Requirement("requests", ">=2.0")}),
            ListsOver({SETUPTOOLS_SCM_DASH, Requirement("cython", "")}),
            {<<Requirement("pytest", "")>>})

InitMerge ==
    /\ setup_py \in SourceRecords
    /\ setup_cfg \in SourceRecords
    /\ merged = EmptyDict
    /\ merge_done = FALSE
    /\ IdleResolver
    /\ IdleClean
    /\ IdleExtract

MergeSdistMetadata ==
    /\ ~merge_done
    /\ merged' \in merge_sdist_metadata(setup_py, setup_cfg)
    /\ merge_done' = TRUE
    /\ UNCHANGED <<setup_py, setup_cfg, resolver_vars, clean_vars, extract_vars>>

NextMerge == MergeSdistMetadata

SpecMerge == InitMerge /\ [][NextMerge]_vars

(***************************************************************************)
(* The extraction context: injection_distutils and __run_setup_py.         *)
(***************************************************************************)
\* str.lower() on the module names of the model
Lower(name) == IF name = "Cython" THEN "cython" ELSE name

\* the name pip is given: pkg_resources is installed as setuptools
PipName(dep_name) == IF dep_name = "pkg_resources" THEN "setuptools" ELSE dep_name

\* pip_install_dep(data_dist, dep_name, pip_dir): the record afterwards,
\* installed_ok telling whether the pip subprocess succeeded
pip_install_dep(dd, dep_name, installed_ok) ==
    LET dd1 == IF DictGet(dd, "setup_requires", <<>>) = <<>>
               THEN DictUpdate(dd, "setup_requires" :> <<>>)
               ELSE dd
        req == Requirement(Lower(PipName(dep_name)), "")
    IN  IF installed_ok
           /\ req \notin ListSet(dd1["setup_requires"])
           /\ Lower(PipName(dep_name)) # "setuptools"
        THEN [dd1 EXCEPT !["setup_requires"] = Append(@, req)]
        ELSE dd1

\* install_deps_if_necessary(setup_path, data_dist, pip_dir): one
\* pip_install_dep per vendored dependency; oks are those pip can install
RECURSIVE install_deps_if_necessary(_, _, _)
install_deps_if_necessary(dd, all_setup_deps, oks) ==
    IF all_setup_deps = <<>> THEN dd
    ELSE install_deps_if_necessary(
            pip_install_dep(dd, all_setup_deps[1], all_setup_deps[1] \in oks),
            Tail(all_setup_deps), oks)

\* the inner __fake_distutils_setup(**kwargs): the record afterwards.  After
\* data_dist.update(kwargs) the record's setup_requires is the list object of
\* kwargs, so the += of lines 358-360 appends that list to itself.
fake_distutils_setup(dd, kwargs) ==
    IF kwargs = EmptyDict THEN dd
    ELSE
    LET d1 == DictUpdate(dd, kwargs)
        kw_sr == DictGet(kwargs, "setup_requires", <<>>)
        d2 == DictUpdate(d1, "setup_requires" :>
                (DictGet(d1, "setup_requires", <<>>) \o kw_sr))
        sr == d2["setup_requires"]
        with_scm == IF SETUPTOOLS_SCM \notin ListSet(sr)
                    THEN sr \o <<SETUPTOOLS_SCM>> ELSE sr
        d3 == IF "use_scm_version" \in DOMAIN d2 /\ kwargs["use_scm_version"]
              THEN DictUpdate(d2, "setup_requires" :>
                      (IF SETUPTOOLS_SCM_DASH \in ListSet(with_scm)
                       THEN ListRemove(with_scm, SETUPTOOLS_SCM_DASH)
                       ELSE with_scm))
              ELSE d2
        d4 == IF DictGet(kwargs, "ext_modules", <<>>) # <<>>
              THEN DictUpdate(d3, "compilers" :>
                      (<<Requirement("c", "")>>
                       \o (IF \E i \in DOMAIN kwargs["ext_modules"] :
                                kwargs["ext_modules"][i]
                           THEN <<Requirement("fortran", "")>> ELSE <<>>)))
              ELSE d3
    IN  \* kwargs["use_scm_version"] is a KeyError when only the record has the key
        IF "use_scm_version" \in DOMAIN d2 /\ "use_scm_version" \notin DOMAIN kwargs
        THEN d2
        ELSE IF DictGet(d4, "run_py", FALSE) THEN DictDel(d4, "run_py")
        ELSE d4

\* search_setup_root(path_folder): the first setup.py, else the first
\* setup.cfg, else the first pyproject.toml, else None
search_setup_root(files) ==
    IF "setup.py" \in files THEN "setup.py"
    ELSE IF "setup.cfg" \in files THEN "setup.cfg"
    ELSE IF "pyproject.toml" \in files THEN "pyproject.toml"
    ELSE "None"

\* get_setup_cfg(source_path) when it returns: {} without a setup.cfg
get_setup_cfg(files, file) == IF "setup.cfg" \in files THEN file.record ELSE EmptyDict

\* get_setup_cfg(source_path) raises: read_configuration cannot read the file
get_setup_cfg_raises(files, file) == "setup.cfg" \in files /\ ~file.readable

\* mkdtemp(prefix="pip-dir-")
PipDir(n) == "pip-dir-" \o ToString(n)

\* a call of __run_setup_py about to start
NewFrame(run_py) ==
    [run_py |-> run_py, at |-> "begin", original_path |-> <<>>, pip_dir |-> ""]

Top == stack[Len(stack)]
SetTop(frame) == [stack EXCEPT ![Len(stack)] = frame]

\* a module name as ModuleNotFoundError.name gives it, with its dotted parts
ModuleName(text, parts) == [text |-> text, parts |-> parts]

MissingModules ==
    {ModuleName("a", <<"a">>), ModuleName("a.b", <<"a", "b">>)}

\* how an execution of the descriptor ends
Outcome(kind, name) == [kind |-> kind, name |-> name]

Outcomes ==
    {Outcome(k, ModuleName("", <<"">>)) : k \in {"ok", "Exception", "BaseException"}}
    \cup {Outcome("ModuleNotFoundError", m) : m \in MissingModules}

\* the keyword arguments a descriptor may call setup() with
SetupKwargs ==
    {EmptyDict,
     ("install_requires" :> <<Requirement("requests", "")>>)
        @@ ("setup_requires" :> <<SETUPTOOLS_SCM_DASH>>),
     ("setup_requires" :> <<SETUPTOOLS_SCM_DASH>>)
        @@ ("use_scm_version" :> TRUE)
        @@ ("ext_modules" :> <<FALSE>>)}

ConfigFile(readable, record) == [readable |-> readable, record |-> record]

ConfigFiles ==
    {ConfigFile(FALSE, EmptyDict),
     ConfigFile(TRUE, "install_requires" :> <<Requirement("requests", ">=2.0")>>),
     ConfigFile(TRUE, "setup_requires" :> <<SETUPTOOLS_SCM_DASH, SETUPTOOLS_SCM_DASH>>)}

InitExtract ==
    /\ tree \in SUBSET {"setup.py", "setup.cfg", "pyproject.toml"}
    /\ script \in SetupKwargs
    /\ vendored \in {<<>>, <<"Cython">>}
    /\ cfg_file \in IF "setup.cfg" \in tree THEN ConfigFiles
                    ELSE {ConfigFile(TRUE, EmptyDict)}
    /\ pc = "outside"
    /\ stack = <<>>
    /\ data_dist = EmptyDict
    /\ core_setup = "setup_core_original"
    /\ cwd = "old_dir"
    /\ sys_path \in {<<"site-packages">>, <<"site-packages", "setup_dir">>}
    /\ pip_dirs = {}
    /\ tmp_count = 0
    /\ deps_installed = <<>>
    /\ installs = <<>>
    /\ executions = 0
    /\ caller_exc = "none"
    /\ IdleResolver
    /\ IdleClean
    /\ IdleMerge

other_vars == <<resolver_vars, clean_vars, merge_vars, tree_vars>>

\* entering the with-statement: lines 322-329 and 385-389 up to the first
\* call of __run_setup_py.  Without a descriptor search_setup_root returns
\* None and os.chdir(os.path.dirname("None")) raises before the try.
Enter ==
    /\ pc = "outside"
    /\ IF search_setup_root(tree) = "None"
       THEN /\ pc' = "raised"
            /\ caller_exc' = "FileNotFoundError"
            /\ UNCHANGED <<stack, data_dist, core_setup, cwd, deps_installed, executions>>
       ELSE /\ pc' = "first_run"
            /\ cwd' = "setup_dir"
            /\ core_setup' = "__fake_distutils_setup"
            /\ data_dist' = EmptyDict
            /\ stack' = <<NewFrame(FALSE)>>
            /\ deps_installed' = <<>>
            /\ executions' = 0
            /\ UNCHANGED caller_exc
    /\ UNCHANGED <<other_vars, sys_path, pip_dirs, tmp_count, installs>>

\* __run_setup_py, lines 413-421
BeginRun ==
    /\ stack # <<>>
    /\ Top.at = "begin"
    /\ \E oks \in SUBSET ListSet(vendored) :
        data_dist' = install_deps_if_necessary(data_dist, vendored, oks)
    /\ installs' = installs \o [i \in DOMAIN vendored |-> PipName(vendored[i])]
    /\ tmp_count' = tmp_count + 1
    /\ pip_dirs' = pip_dirs \cup {PipDir(tmp_count')}
    /\ sys_path' = IF "setup_dir" \notin ListSet(sys_path)
                   THEN sys_path \o <<"setup_dir", PipDir(tmp_count')>>
                   ELSE sys_path
    /\ stack' = SetTop([Top EXCEPT !.at = "exec", !.original_path = sys_path,
                                   !.pip_dir = PipDir(tmp_count')])
    /\ UNCHANGED <<other_vars, pc, core_setup, cwd, deps_installed, executions, caller_exc>>

\* __run_setup_py, lines 422-443: the descriptor runs (reaching its setup()
\* call or not) and ends in one of the outcomes, which the except clauses
\* handle; a BaseException leaves every frame and reaches line 397.
ExecDescriptor ==
    /\ stack # <<>>
    /\ Top.at = "exec"
    /\ executions' = executions + 1
    /\ \E reached \in BOOLEAN, out \in Outcomes :
        LET started == IF Top.run_py THEN DictUpdate(data_dist, "run_py" :> TRUE)
                       ELSE data_dist
            captured == IF reached THEN fake_distutils_setup(started, script)
                        ELSE started
            dep_install == IF out.name.text \in ListSet(deps_installed)
                           THEN out.name.parts[1] ELSE out.name.text
        IN  CASE out.kind \in {"ok", "Exception"} ->
                    /\ data_dist' = captured
                    /\ stack' = SetTop([Top EXCEPT !.at = "merge"])
                    /\ UNCHANGED <<pc, deps_installed, installs>>
              [] out.kind = "BaseException" ->
                    /\ data_dist' = captured
                    /\ stack' = <<>>
                    /\ pc' = "yielded"
                    /\ UNCHANGED <<deps_installed, installs>>
              [] out.kind = "ModuleNotFoundError"
                    /\ dep_install \in ListSet(deps_installed) ->
                    /\ data_dist' = captured
                    /\ stack' = SetTop([Top EXCEPT !.at = "merge"])
                    /\ UNCHANGED <<pc, deps_installed, installs>>
              [] out.kind = "ModuleNotFoundError"
                    /\ dep_install \notin ListSet(deps_installed) ->
                    /\ deps_installed' = Append(deps_installed, dep_install)
                    /\ \E installed_ok \in BOOLEAN :
                        data_dist' = pip_install_dep(captured, dep_install, installed_ok)
                    /\ installs' = Append(installs, PipName(dep_install))
                    /\ stack' = SetTop([Top EXCEPT !.at = "merge"])
                                \o <<NewFrame(Top.run_py)>>
                    /\ UNCHANGED pc
    /\ UNCHANGED <<other_vars, core_setup, cwd, sys_path, pip_dirs, tmp_count, caller_exc>>

\* __run_setup_py, lines 444-450: the config file is merged in, the pip
\* directory removed and sys.path restored; an exception of get_setup_cfg
\* leaves every frame and reaches line 397.
MergeAndCleanUp ==
    /\ stack # <<>>
    /\ Top.at = "merge"
    /\ IF get_setup_cfg_raises(tree, cfg_file)
       THEN /\ stack' = <<>>
            /\ pc' = "yielded"
            /\ UNCHANGED <<data_dist, pip_dirs, sys_path>>
       ELSE /\ \E m \in merge_sdist_metadata(data_dist, get_setup_cfg(tree, cfg_file)) :
                data_dist' = DictUpdate(data_dist, m)
            /\ pip_dirs' = pip_dirs \ {Top.pip_dir}
            /\ sys_path' = Top.original_path
            /\ stack' = SubSeq(stack, 1, Len(stack) - 1)
            /\ pc' = IF Len(stack) > 1 THEN pc
                     ELSE IF pc = "first_run" THEN "first_done" ELSE "second_done"
    /\ UNCHANGED <<other_vars, core_setup, cwd, tmp_count, deps_installed, installs,
                   executions, caller_exc>>

\* injection_distutils, lines 390-395: nothing recovered, the descriptor is
\* run again as a script
RunAsScript ==
    /\ pc = "first_done"
    /\ data_dist = EmptyDict \/ DictGet(data_dist, "install_requires", <<>>) = <<>>
    /\ pc' = "second_run"
    /\ stack' = <<NewFrame(TRUE)>>
    /\ deps_installed' = <<>>
    /\ executions' = 0
    /\ UNCHANGED <<other_vars, data_dist, core_setup, cwd, sys_path, pip_dirs, tmp_count,
                   installs, caller_exc>>

\* injection_distutils, line 396: yield data_dist
Yield ==
    /\ \/ pc = "second_done"
       \/ /\ pc = "first_done"
          /\ ~(data_dist = EmptyDict \/ DictGet(data_dist, "install_requires", <<>>) = <<>>)
    /\ pc' = "yielded"
    /\ UNCHANGED <<other_vars, stack, data_dist, core_setup, cwd, sys_path, pip_dirs,
                   tmp_count, deps_installed, installs, executions, caller_exc>>

\* a finally that rebinds core.setup and stays in the descriptor's directory
ExitContextKeepsCwd ==
    /\ pc = "yielded"
    /\ pc' = "exited"
    /\ core_setup' = "setup_core_original"
    /\ UNCHANGED <<other_vars, stack, data_dist, cwd, sys_path, pip_dirs, tmp_count,
                   deps_installed, installs, executions, caller_exc>>

\* the body of the with-statement ends: the finally of lines 400-402
ExitContext ==
    /\ pc = "yielded"
    /\ pc' = "exited"
    /\ core_setup' = "setup_core_original"
    /\ cwd' = "old_dir"
    /\ UNCHANGED <<other_vars, stack, data_dist, sys_path, pip_dirs, tmp_count,
                   deps_installed, installs, executions, caller_exc>>

NextExtract ==
    \/ Enter
    \/ BeginRun
    \/ ExecDescriptor
    \/ MergeAndCleanUp
    \/ RunAsScript
    \/ Yield
    \/ ExitContext

SpecExtract == InitExtract /\ [][NextExtract]_vars

(***************************************************************************)
(* Properties of the resolver.                                             *)
(***************************************************************************)
Called == call # NoCall
RangeCall == Called /\ ~call.is_selector
GuardCall == Called /\ call.is_selector
\* the EnabledVector of the state's constraint over the state's matrix
EnabledVector == get_py_version_available(config, req_python)
Matrix == config.supported_py

\* a version satisfies every clause of a range string
SatisfiesRange(v, clauses) ==
    \A k \in DOMAIN clauses : PyVerCompare(clauses[k].op, v, clauses[k].ver)

\* C1: whenever generic_py_ver_to in range mode returns a string, the matrix
\* versions that satisfy the returned comma-joined clauses are exactly the
\* versions the constraint enables.
C1_RangeEqualsEnabled ==
    (call.fn = "generic_py_ver_to" /\ ~call.is_selector /\ result.kind = "str")
        => \A i \in DOMAIN Matrix :
               SatisfiesRange(Matrix[i], result.clauses) <=> EnabledVector[i]

\* the enabled vector is False before position p and True from p on
AscendingCutoverAt(p) ==
    \A i \in DOMAIN Matrix : EnabledVector[i] <=> (i >= p)

\* C2 as stated: for a single ascending cutover at v, range mode returns
\* exactly ">=v.major.v.minor" and guard mode returns "# [py<{major}{minor}]".
C2_CutoverAsStated ==
    \A p \in DOMAIN Matrix :
        (Called /\ AscendingCutoverAt(p)) =>
            /\ result.kind = "str"
            /\ result.text = IF call.is_selector
                             THEN "# [py<" \o PyTag(Matrix[p]) \o "]"
                             ELSE ">=" \o PyDotted(Matrix[p])

\* C2 amended: for a single ascending cutover at an entry v other than the
\* first matrix entry, range mode returns exactly ">=v.major.v.minor"; guard
\* mode returns "# [py<{major}{minor}]", except that a non-strict
\* configuration whose cutover is at the entry right after 2.7 gets "# [py2k]".
C2_CutoverAmended ==
    \A p \in DOMAIN Matrix :
        (Called /\ p > 1 /\ AscendingCutoverAt(p)) =>
            /\ result.kind = "str"
            /\ result.text = IF ~call.is_selector THEN ">=" \o PyDotted(Matrix[p])
                             ELSE IF ~config.is_strict_cf /\ p = 2 THEN "# [py2k]"
                             ELSE "# [py<" \o PyTag(Matrix[p]) \o "]"

\* a guard was asked for a cutover at 3.8 of the non-strict matrix
C2_Witness ==
    /\ GuardCall
    /\ ~config.is_strict_cf
    /\ Len(Matrix) >= 4
    /\ AscendingCutoverAt(4)
    /\ result.text = "# [py<38]"

\* the scenario of C3: matrix [2.7, 3.6, 3.7, 3.8], not strict, ">=3.6"
C3_Scenario ==
    /\ config = [is_strict_cf |-> FALSE, py_cf_supported |-> Py3Matrix(3),
                 supported_py |-> <<LEGACY>> \o Py3Matrix(3)]
    /\ req_python = <<[op |-> ">=", major |-> 3, has_minor |-> TRUE, minor |-> 6]>>

C4_Scenario ==
    /\ config = [is_strict_cf |-> TRUE, py_cf_supported |-> Py3Matrix(4),
                 supported_py |-> Py3Matrix(4)]
    /\ req_python = <<[op |-> ">=", major |-> 3, has_minor |-> TRUE, minor |-> 7],
                      [op |-> "<", major |-> 3, has_minor |-> TRUE, minor |-> 9]>>

\* C4: in the scenario (enabled vector [False, True, True, False]) the
\* resolver enumerates: "!=3.6,!=3.9" in range mode, and a guard whose body
\* is "py==36 or py==39".
C4_ScenarioEnumerates ==
    (C4_Scenario /\ Called) =>
        /\ EnabledVector = <<FALSE, TRUE, TRUE, FALSE>>
        /\ result.kind = "str"
        /\ result.text = IF call.is_selector THEN "# [py==36 or py==39]"
                         ELSE "!=3.6,!=3.9"

\* C5: in both modes and both configurations the resolver finishes with a
\* string or None, never with an error.
C5_NeverAnError ==
    Called => result.kind \in {"None", "str"}

\* C6 as stated: with every matrix entry enabled the resolver returns None in
\* guard mode and in range mode, py_version_to_limit_python included.
C6_AllEnabledAsStated ==
    (Called /\ PyAll(EnabledVector)) => result.kind = "None"

\* C6 amended: with every matrix entry enabled, generic_py_ver_to (both modes)
\* and py_version_to_selector return None; py_version_to_limit_python returns
\* None when not strict and the floor ">=major.minor" of the first
\* py_cf_supported entry when strict.
C6_AllEnabledAmended ==
    (Called /\ PyAll(EnabledVector)) =>
        IF call.fn = "py_version_to_limit_python" /\ config.is_strict_cf
        THEN result.kind = "str"
             /\ result.text = ">=" \o PyDotted(config.py_cf_supported[1])
        ELSE result.kind = "None"

C6_Witness ==
    /\ call.fn = "py_version_to_limit_python"
    /\ config.is_strict_cf
    /\ req_python # <<>>
    /\ PyAll(EnabledVector)
    /\ result.text = ">=3.6"

(***************************************************************************)
(* Properties of the dependency-line filter.                               *)
(***************************************************************************)
\* the directive of a line as C7 reads it: the first character is the major,
\* the remaining group the minor, a "k" in it standing for 0
DirectiveVersion(dependency) ==
    LET rest == ReplaceK(Tail(dependency.body))
    IN  PyVer(IntOfDigits(<<dependency.body[1]>>),
              IF rest = <<>> THEN 0 ELSE IntOfDigits(rest))

DirectiveHolds(dependency, floor) ==
    PyVerCompare(IF dependency.op = "" THEN "==" ELSE dependency.op,
                 floor, DirectiveVersion(dependency))

\* C7: clean_deps_for_conda_forge keeps a line if and only if it has no
\* trailing "# [py<op><digits>]" directive or min_version <op> (major, minor)
\* holds, a "k" minor (as in "# [py2k]") read as 0; the kept lines come back
\* unmodified and in input order.
C7_KeepsIffDirectiveHolds ==
    clean_done =>
        result_deps = SelectSeq(list_deps,
                        LAMBDA d : ~d.has_selector \/ DirectiveHolds(d, py_ver_min))

\* C7's scenario: "pywin32  # [py<37]" is kept for the floor 3.6 and dropped
\* for the floor 3.8
C7_ScenarioHolds ==
    (clean_done /\ list_deps = <<DependencyLine("pywin32", TRUE, "<", <<"3", "7">>)>>)
        => result_deps = IF py_ver_min = PyVer(3, 6) THEN list_deps ELSE <<>>

(***************************************************************************)
(* Properties of the merge.                                                *)
(***************************************************************************)
NoDuplicateName(list) ==
    \A i \in DOMAIN list, j \in DOMAIN list : i # j => list[i].name # list[j].name

\* C8: install_requires, setup_requires and extras_require of the result of
\* merge_sdist_metadata never hold two entries for the same package name.
C8_NoDuplicatePackage ==
    merge_done =>
        \A k \in {"install_requires", "setup_requires", "extras_require"} \cap DOMAIN merged :
            NoDuplicateName(merged[k])

(***************************************************************************)
(* Properties of the extraction.                                           *)
(***************************************************************************)
\* C9: whatever capturing-setup calls, missing-module installs and
\* config-file merges an extraction has performed, the record it yields
\* does not contain "setuptools-scm" in its setup_requires.
C9_NeverSetuptoolsScmDash ==
    pc \in {"yielded", "exited"} =>
        SETUPTOOLS_SCM_DASH \notin ListSet(DictGet(data_dist, "setup_requires", <<>>))

\* C10: extraction through injection_distutils never raises to its caller,
\* also for a source tree without a build descriptor.
C10_NeverRaisesToCaller ==
    pc # "raised" /\ caller_exc = "none"

\* the context has been left: by its finally, or by the exception of its entry
Left == pc \in {"exited", "raised"}

\* C11: on every exit path of the injection_distutils context core.setup is
\* bound to the function it was bound to before entry and the working
\* directory is the one it was before entry.
C11_BindingAndCwdRestored ==
    Left => core_setup = "setup_core_original" /\ cwd = "old_dir"

\* the context is left after an exception escaped __run_setup_py (its pip
\* directory is still there) in the fallback run
C11_Witness ==
    /\ pc = "exited"
    /\ pip_dirs # {}
    /\ DictGet(data_dist, "run_py", FALSE)
    /\ core_setup = "setup_core_original"
    /\ cwd = "old_dir"

\* the values sys.path can have when the context is entered
EntryPaths == {<<"site-packages">>, <<"site-packages", "setup_dir">>}

\* C12: when control has left every __run_setup_py call, whatever its
\* outcome, sys.path is what it was at entry and the pip directories the
\* calls created are removed.
C12_PathAndPipDirRestored ==
    (pc \in {"first_done", "second_done", "yielded", "exited"} /\ stack = <<>>) =>
        sys_path \in EntryPaths /\ pip_dirs = {}

\* the top-level part of a module name
TopLevel(text) == (CHOOSE m \in MissingModules : m.text = text).parts[1]

\* C13: within one top-level call of __run_setup_py, once the descriptor has
\* failed twice with a missing module of the same top-level name (the j-th
\* execution being the second such failure) it is not executed again.
C13_NoThirdExecution ==
    \A i \in DOMAIN deps_installed, j \in DOMAIN deps_installed :
        (i < j /\ TopLevel(deps_installed[i]) = TopLevel(deps_installed[j]))
            => executions <= j

\* C14: during one extraction run pip is asked at most once to install any
\* given module name.
C14_InstallOncePerName ==
    \A i \in DOMAIN installs, j \in DOMAIN installs : i # j => installs[i] # installs[j]

====
